---- MODULE Spec2Model ----
(***************************************************************************)
(* FunticoManager (src/src/funtico-sdk.ts): a browser-side adapter around  *)
(* the vendor FunticoSDK client.  The adapter owns the SDK handle, the     *)
(* isInitialized flag and one cached identity (userInfo).  Every public    *)
(* async operation is cut at its awaits: one action runs the synchronous   *)
(* part up to the first vendor call, one action per vendor outcome runs    *)
(* the continuation up to the next await or to the return.  The host may   *)
(* start an operation while another is still awaiting its vendor call.     *)
(***************************************************************************)
EXTENDS Integers, Sequences, FiniteSets, TLC

\* ------------------------------------------------------------------ bounds
\* invocations the host starts within one page load
MaxCalls == 3
\* invocations that may be awaiting a vendor call at the same time
MaxInflight == 2

\* ------------------------------------------------------- JavaScript values
\* Values of this.userInfo and of what sdk.getUserInfo() resolves with.  All
\* are records of one shape; tag tells null, undefined and objects apart.
JsNull == [tag |-> "null", username |-> "", user_id |-> 0, email |-> ""]
JsUndefined == [tag |-> "undefined", username |-> "", user_id |-> 0, email |-> ""]
Alice == [tag |-> "object", username |-> "alice", user_id |-> 7, email |-> ""]
Bob == [tag |-> "object", username |-> "bob", user_id |-> 8, email |-> "bob@example.com"]
\* an identity object whose username is the empty string
Anonymous == [tag |-> "object", username |-> "", user_id |-> 0, email |-> ""]
DemoIdentity ==
    [tag |-> "object", username |-> "demo_player", user_id |-> 99999,
     email |-> "demo@avalanche-knight.com"]

\* what the vendor's getUserInfo() may resolve with
VendorIdentities == {JsNull, JsUndefined, Alice, Bob, Anonymous}

\* JavaScript truthiness of such a value: if (this.userInfo)
Truthy(v) == v.tag = "object"

\* Values a vendor promise may reject with.  hasName / hasStatus: 'name' in e,
\* 'status' in e.  message is a token sequence, <<>> when e has no message.
AuthError ==
    [tag |-> "object", hasName |-> TRUE, hasStatus |-> TRUE, name |-> "auth_error",
     message |-> <<>>]
ServerError ==
    [tag |-> "object", hasName |-> TRUE, hasStatus |-> TRUE,
     name |-> "internal_server_error", message |-> <<>>]
OtherSdkError ==
    [tag |-> "object", hasName |-> TRUE, hasStatus |-> TRUE, name |-> "rate_limited",
     message |-> <<>>]
RedirectUriError ==
    [tag |-> "object", hasName |-> TRUE, hasStatus |-> FALSE, name |-> "Error",
     message |-> <<"invalid", "redirect_uri", "parameter">>]
NetworkError ==
    [tag |-> "object", hasName |-> TRUE, hasStatus |-> FALSE, name |-> "Error",
     message |-> <<"network", "down">>]
NullError ==
    [tag |-> "null", hasName |-> FALSE, hasStatus |-> FALSE, name |-> "", message |-> <<>>]
UndefinedError ==
    [tag |-> "undefined", hasName |-> FALSE, hasStatus |-> FALSE, name |-> "",
     message |-> <<>>]
VendorErrors ==
    {AuthError, ServerError, OtherSdkError, RedirectUriError, NetworkError, NullError,
     UndefinedError}

\* what the vendor's getLeaderboard() may resolve with
Leaderboards == {<<>>, <<"alice", "bob">>}

Scores == {0, 1500}

\* s.includes(t) on token sequences
Includes(s, t) ==
    \E i \in 0..(Len(s) - Len(t)) : SubSeq(s, i + 1, i + Len(t)) = t

\* ------------------------------------------------------------- host page
\* window.location.hostname, as tokens
Hostnames ==
    {<<"play", ".", "funtico", ".", "com">>,
     <<"avalanche-knight", ".", "vercel", ".", "app">>,
     <<"localhost">>}

FunticoDomain == <<"funtico", ".", "com">>
VercelDomain == <<"vercel", ".", "app">>

\* a query parameter that the address does not carry: URLSearchParams.get
\* answers null
Absent == "<null>"
CodeValues == {Absent, "", "abc123"}
ErrorValues == {Absent, "", "access_denied"}
\* window.location.search, as the parameters it carries
Searches == [code : CodeValues, error : ErrorValues]
NoQuery == [code |-> Absent, error |-> Absent]

\* truthiness of what URLSearchParams.get returned: null and "" are falsy
ParamTruthy(p) == p # Absent /\ p # ""

\* https://<hostname> : window.location.origin
Origin(h) == <<"https", ":", "/", "/">> \o h

\* encodeURIComponent on the tokens an origin is made of: ':' and '/' are
\* escaped, letters, digits, '.' and '-' are kept
EncodeToken(c) == IF c = ":" THEN "%3A" ELSE IF c = "/" THEN "%2F" ELSE c
EncodeURIComponent(s) == [i \in 1..Len(s) |-> EncodeToken(s[i])]

\* the address signIn assigns to window.location.href (line 94)
LoginUrl(callbackUrl) ==
    [authority |-> "https://auth.funtico.com/oauth2/auth",
     client_id |-> "gl-avalanche-knight",
     redirect_uri |-> EncodeURIComponent(callbackUrl),
     response_type |-> "code",
     scope |-> "openid+profile+email"]
\* no address has been assigned in this page load
NoNavigation ==
    [authority |-> "", client_id |-> "", redirect_uri |-> <<>>, response_type |-> "",
     scope |-> ""]

\* ------------------------------------------------------------------ state
VARIABLES
    sdk,            \* this.sdk: undefined, or the vendor client with its configuration
    isInitialized,  \* this.isInitialized
    userInfo,       \* this.userInfo, the cached identity
    hostname,       \* window.location.hostname
    search,         \* window.location.search
    navCount,       \* assignments to window.location.href in this page load
    navTarget,      \* the address last assigned to window.location.href
    inflight,       \* for each await point, the invocations awaiting there
    calls,          \* invocations started so far
    signedOut,      \* history: a signOut has returned true, and no signIn, getUserInfo
                    \* or handleCallback has been started since
    last            \* the step taken last: which operation, which vendor method it
                    \* called (called) or tried to call on this.sdk (attempted), and
                    \* what it settled with if it settled

vars == <<sdk, isInitialized, userInfo, hostname, search, navCount, navTarget, inflight,
          calls, signedOut, last>>

SdkUndefined == [tag |-> "undefined", authClientId |-> "", env |-> "", autoLogin |-> FALSE]

\* the awaits of the public operations: <operation>_<vendor method awaited>
AwaitPoints ==
    {"signIn_getUserInfo", "signIn_signInWithFuntico", "getUserInfo_getUserInfo",
     "saveScore_saveScore", "getLeaderboard_getLeaderboard", "signOut_signOut",
     "handleCallback_exchange", "handleCallback_getUserInfo"}
NoRet == "<pending>"

\* what a step took from the vendor: the value a vendor identity call resolved
\* with, or the value a vendor call rejected with
NoValue == [tag |-> "none", username |-> "", user_id |-> 0, email |-> ""]
NoError ==
    [tag |-> "none", hasName |-> FALSE, hasStatus |-> FALSE, name |-> "", message |-> <<>>]
Nothing == [got |-> NoValue, err |-> NoError]
Got(v) == [got |-> v, err |-> NoError]
Err(e) == [got |-> NoValue, err |-> e]

\* ------------------------------------------------------------ construction
\* initializeSDK that sets isInitialized before it constructs the client and
\* has no catch that resets it
InitializeSDKFlagFirst(h, ctorThrows) ==
    LET isFunticoHosted == Includes(h, FunticoDomain)
        isProduction == Includes(h, VercelDomain) \/ isFunticoHosted
    IN  IF ctorThrows
        THEN [sdk |-> SdkUndefined, isInitialized |-> TRUE]
        ELSE [sdk |-> [tag |-> "object", authClientId |-> "gl-avalanche-knight",
                       env |-> IF isProduction THEN "production" ELSE "sandbox",
                       autoLogin |-> isFunticoHosted],
              isInitialized |-> TRUE]

\* initializeSDK (lines 24-46); ctorThrows: new FunticoSDK(...) threw
InitializeSDK(h, ctorThrows) ==
    LET isFunticoHosted == Includes(h, FunticoDomain)
        isProduction == Includes(h, VercelDomain) \/ isFunticoHosted
    IN  IF ctorThrows
        THEN [sdk |-> SdkUndefined, isInitialized |-> FALSE]
        ELSE [sdk |-> [tag |-> "object", authClientId |-> "gl-avalanche-knight",
                       env |-> IF isProduction THEN "production" ELSE "sandbox",
                       autoLogin |-> isFunticoHosted],
              isInitialized |-> TRUE]

Init ==
    /\ hostname \in Hostnames
    /\ search \in Searches
    /\ \E ctorThrows \in BOOLEAN :
         LET r == InitializeSDK(hostname, ctorThrows)
         IN  sdk = r.sdk /\ isInitialized = r.isInitialized
    /\ userInfo = JsNull
    /\ navCount = 0
    /\ navTarget = NoNavigation
    /\ inflight = [p \in AwaitPoints |-> 0]
    /\ calls = 0
    /\ signedOut = FALSE
    /\ last = [op |-> "none", act |-> "Init", got |-> NoValue, err |-> NoError,
               called |-> "none", attempted |-> "none", outcome |-> "none",
               ret |-> NoRet]

\* ------------------------------------------------------------- accessors
\* isReady (lines 49-51): this.sdk is never null, it is undefined or an object
\* isReady without the isInitialized test
IsReadyHandleOnly == sdk.tag # "null"
IsReady == isInitialized /\ sdk.tag # "null"

\* isAuthenticated (lines 249-251)
IsAuthenticated == userInfo.tag # "null"

\* getUsername without the || 'Guest' for an identity that is cached
GetUsernameNoFallback ==
    IF userInfo.tag \in {"null", "undefined"} THEN "Guest" ELSE userInfo.username
\* getUsername (lines 254-256): this.userInfo?.username || 'Guest'.  ?. gives
\* undefined for null and undefined; || replaces every falsy username, the
\* empty string among them.
GetUsername ==
    LET username ==
            IF userInfo.tag \in {"null", "undefined"} THEN "" ELSE userInfo.username
    IN  IF username = "" THEN "Guest" ELSE username

\* --------------------------------------------------------- step bookkeeping
\* the number of invocations awaiting a vendor call
InFlight ==
    inflight["signIn_getUserInfo"] + inflight["signIn_signInWithFuntico"]
    + inflight["getUserInfo_getUserInfo"] + inflight["saveScore_saveScore"]
    + inflight["getLeaderboard_getLeaderboard"] + inflight["signOut_signOut"]
    + inflight["handleCallback_exchange"] + inflight["handleCallback_getUserInfo"]

\* the host starts an invocation
CanStart == calls < MaxCalls /\ InFlight < MaxInflight

\* some invocation awaits at p
Awaiting(p) == inflight[p] > 0

\* the await points without the invocation that leaves q ("start": a new one)
Leave(q) == IF q = "start" THEN inflight ELSE [inflight EXCEPT ![q] = @ - 1]

\* the invocation at q calls vendor method m and awaits it at p
Await(q, o, a, w, m, p) ==
    /\ inflight' = [Leave(q) EXCEPT ![p] = @ + 1]
    /\ last' = [op |-> o, act |-> a, got |-> w.got, err |-> w.err, called |-> m,
                attempted |-> m, outcome |-> "pending", ret |-> NoRet]

\* the invocation at q returns r to its caller
Return(q, o, a, w, r) ==
    /\ inflight' = Leave(q)
    /\ last' = [op |-> o, act |-> a, got |-> w.got, err |-> w.err, called |-> "none",
                attempted |-> "none", outcome |-> "returned", ret |-> r]

\* the promise of the invocation at q rejects: an exception escapes to the caller
Throw(q, o, a, w) ==
    /\ inflight' = Leave(q)
    /\ last' = [op |-> o, act |-> a, got |-> w.got, err |-> w.err, called |-> "none",
                attempted |-> "none", outcome |-> "threw", ret |-> NoRet]

\* the invocation at q evaluates this.sdk.m(...) while this.sdk is undefined:
\* a TypeError, which the enclosing catch answers by returning r
ReturnFromTypeError(q, o, a, m, r) ==
    /\ inflight' = Leave(q)
    /\ last' = [op |-> o, act |-> a, got |-> NoValue, err |-> NoError, called |-> "none",
                attempted |-> m, outcome |-> "returned", ret |-> r]

Page == <<hostname, search, navCount, navTarget>>
Handle == <<sdk, isInitialized>>

\* ------------------------------------------------------------------ signIn
\* signIn with a single-flight guard: it answers false while another signIn is
\* awaiting its vendor call
SignInStartSingleFlight ==
    /\ CanStart
    /\ calls' = calls + 1
    /\ IF ~IsReady \/ Awaiting("signIn_getUserInfo")
          \/ Awaiting("signIn_signInWithFuntico")
       THEN Return("start", "signIn", "SignInStart", Nothing, FALSE)
       ELSE IF Includes(hostname, FunticoDomain)
            THEN Await("start", "signIn",
                       "SignInStart", Nothing, "getUserInfo", "signIn_getUserInfo")
            ELSE Await("start", "signIn", "SignInStart", Nothing, "signInWithFuntico",
                       "signIn_signInWithFuntico")
    /\ UNCHANGED <<userInfo, Page, Handle>>
    /\ signedOut' = FALSE

\* lines 54-89, up to the first await
SignInStart ==
    /\ CanStart
    /\ calls' = calls + 1
    /\ IF ~IsReady
       THEN Return("start", "signIn", "SignInStart", Nothing, FALSE)
       ELSE IF Includes(hostname, FunticoDomain)
            THEN Await("start", "signIn",
                       "SignInStart", Nothing, "getUserInfo", "signIn_getUserInfo")
            ELSE Await("start", "signIn", "SignInStart", Nothing, "signInWithFuntico",
                       "signIn_signInWithFuntico")
    /\ UNCHANGED <<userInfo, Page, Handle>>
    /\ signedOut' = FALSE

\* lines 66-70 and 76-87: sdk.getUserInfo() resolved with v
SignInSessionResolve(v) ==
    /\ Awaiting("signIn_getUserInfo")
    /\ userInfo' = v
    /\ IF Truthy(v)
       THEN Return("signIn_getUserInfo", "signIn", "SignInSessionResolve", Got(v), TRUE)
       ELSE Await("signIn_getUserInfo", "signIn",
                  "SignInSessionResolve", Got(v), "signInWithFuntico",
                  "signIn_signInWithFuntico")
    /\ UNCHANGED <<calls, Page, Handle, signedOut>>

\* signIn that gives up when the session lookup fails
SignInSessionRejectFails(e) ==
    /\ Awaiting("signIn_getUserInfo")
    /\ Return("signIn_getUserInfo", "signIn", "SignInSessionReject", Err(e), FALSE)
    /\ UNCHANGED <<userInfo, calls, Page, Handle, signedOut>>

\* lines 71-73 and 76-87: sdk.getUserInfo() rejected with e
SignInSessionReject(e) ==
    /\ Awaiting("signIn_getUserInfo")
    /\ Await("signIn_getUserInfo", "signIn",
             "SignInSessionReject", Err(e), "signInWithFuntico",
             "signIn_signInWithFuntico")
    /\ UNCHANGED <<userInfo, calls, Page, Handle, signedOut>>

\* signIn that assigns the login address after a successful direct call too
SignInDirectResolveNavigates ==
    /\ Awaiting("signIn_signInWithFuntico")
    /\ navTarget' = LoginUrl(Origin(hostname) \o <<"/">>)
    /\ navCount' = navCount + 1
    /\ Return("signIn_signInWithFuntico", "signIn", "SignInDirectResolve", Nothing, TRUE)
    /\ UNCHANGED <<userInfo, calls, hostname, search, Handle, signedOut>>

\* lines 87-89: sdk.signInWithFuntico(callbackUrl) resolved
SignInDirectResolve ==
    /\ Awaiting("signIn_signInWithFuntico")
    /\ Return("signIn_signInWithFuntico", "signIn", "SignInDirectResolve", Nothing, TRUE)
    /\ UNCHANGED <<userInfo, calls, Page, Handle, signedOut>>

\* lines 90-98: sdk.signInWithFuntico(callbackUrl) rejected with e.  The inner
\* catch takes every rejection; nothing it executes throws.
SignInDirectReject(e) ==
    /\ Awaiting("signIn_signInWithFuntico")
    /\ navTarget' = LoginUrl(Origin(hostname) \o <<"/">>)
    /\ navCount' = navCount + 1
    /\ Return("signIn_signInWithFuntico", "signIn", "SignInDirectReject", Err(e), TRUE)
    /\ UNCHANGED <<userInfo, calls, hostname, search, Handle, signedOut>>

\* lines 99-120, the outer catch of signIn, applied to a caught error:
\* error.message on null or undefined is a TypeError that escapes signIn.
\* Every statement of the outer try that can throw (the awaited vendor call)
\* is inside the inner try, whose catch returns: no step applies this catch.
SignInOuterCatch(error) ==
    IF error.tag \in {"null", "undefined"}
    THEN [outcome |-> "threw", userInfo |-> userInfo, ret |-> NoRet]
    ELSE IF error.tag = "object" /\ Includes(error.message, <<"redirect_uri">>)
         THEN [outcome |-> "returned", userInfo |-> DemoIdentity, ret |-> TRUE]
         ELSE [outcome |-> "returned", userInfo |-> userInfo, ret |-> FALSE]

\* -------------------------------------------------------------- getUserInfo
\* getUserInfo without the cache test of lines 131-133
GetUserInfoStartNoCache ==
    /\ CanStart
    /\ calls' = calls + 1
    /\ IF ~IsReady
       THEN Return("start", "getUserInfo", "GetUserInfoStart", Nothing, JsNull)
       ELSE Await("start", "getUserInfo", "GetUserInfoStart", Nothing, "getUserInfo",
                  "getUserInfo_getUserInfo")
    /\ UNCHANGED <<userInfo, Page, Handle>>
    /\ signedOut' = FALSE

\* lines 124-136, up to the await
GetUserInfoStart ==
    /\ CanStart
    /\ calls' = calls + 1
    /\ IF ~IsReady
       THEN Return("start", "getUserInfo", "GetUserInfoStart", Nothing, JsNull)
       ELSE IF Truthy(userInfo)
            THEN Return("start", "getUserInfo", "GetUserInfoStart", Nothing, userInfo)
            ELSE Await("start", "getUserInfo", "GetUserInfoStart", Nothing, "getUserInfo",
                       "getUserInfo_getUserInfo")
    /\ UNCHANGED <<userInfo, Page, Handle>>
    /\ signedOut' = FALSE

\* lines 136-137
GetUserInfoResolve(v) ==
    /\ Awaiting("getUserInfo_getUserInfo")
    /\ userInfo' = v
    /\ Return("getUserInfo_getUserInfo", "getUserInfo", "GetUserInfoResolve", Got(v), v)
    /\ UNCHANGED <<calls, Page, Handle, signedOut>>

\* isSDKError without the error !== null test
IsSDKErrorNoNullCheck(error) ==
    IF error.tag \notin {"object", "null"} THEN "false"
    ELSE IF error.tag # "object" THEN "TypeError"
    ELSE IF error.hasName /\ error.hasStatus THEN "true" ELSE "false"
\* isSDKError (lines 11-13): "true", "false", or "TypeError" when the in
\* operator is applied to a value that is not an object
IsSDKError(error) ==
    IF error.tag \notin {"object", "null"} THEN "false"
    ELSE IF error.tag = "null" THEN "false"
    ELSE IF error.tag # "object" THEN "TypeError"
    ELSE IF error.hasName /\ error.hasStatus THEN "true" ELSE "false"

\* getUserInfo that asks the vendor again after an internal_server_error
GetUserInfoRejectRetries(e) ==
    /\ Awaiting("getUserInfo_getUserInfo")
    /\ IF IsSDKError(e) = "true" /\ e.name = "internal_server_error"
       THEN Await("getUserInfo_getUserInfo", "getUserInfo", "GetUserInfoReject", Err(e),
                  "getUserInfo", "getUserInfo_getUserInfo")
       ELSE Return("getUserInfo_getUserInfo", "getUserInfo", "GetUserInfoReject", Err(e),
                   JsNull)
    /\ UNCHANGED <<userInfo, calls, Page, Handle, signedOut>>

\* lines 138-154: every path of the catch returns null
GetUserInfoReject(e) ==
    /\ Awaiting("getUserInfo_getUserInfo")
    /\ IF IsSDKError(e) = "TypeError"
       THEN Throw("getUserInfo_getUserInfo", "getUserInfo", "GetUserInfoReject", Err(e))
       ELSE Return("getUserInfo_getUserInfo", "getUserInfo",
                   "GetUserInfoReject", Err(e), JsNull)
    /\ UNCHANGED <<userInfo, calls, Page, Handle, signedOut>>

\* ---------------------------------------------------------------- saveScore
\* lines 158-166
SaveScoreStart(score) ==
    /\ CanStart
    /\ calls' = calls + 1
    /\ IF ~IsReady
       THEN Return("start", "saveScore", "SaveScoreStart", Nothing, FALSE)
       ELSE Await("start", "saveScore",
                  "SaveScoreStart", Nothing, "saveScore", "saveScore_saveScore")
    /\ UNCHANGED <<userInfo, Page, Handle, signedOut>>

\* lines 167-168
SaveScoreResolve ==
    /\ Awaiting("saveScore_saveScore")
    /\ Return("saveScore_saveScore", "saveScore", "SaveScoreResolve", Nothing, TRUE)
    /\ UNCHANGED <<userInfo, calls, Page, Handle, signedOut>>

\* saveScore whose catch reports the failure
SaveScoreRejectFalse(e) ==
    /\ Awaiting("saveScore_saveScore")
    /\ Return("saveScore_saveScore", "saveScore", "SaveScoreReject", Err(e), FALSE)
    /\ UNCHANGED <<userInfo, calls, Page, Handle, signedOut>>

\* lines 169-176
SaveScoreReject(e) ==
    /\ Awaiting("saveScore_saveScore")
    /\ Return("saveScore_saveScore", "saveScore", "SaveScoreReject", Err(e), TRUE)
    /\ UNCHANGED <<userInfo, calls, Page, Handle, signedOut>>

\* ----------------------------------------------------------- getLeaderboard
\* lines 180-187
GetLeaderboardStart ==
    /\ CanStart
    /\ calls' = calls + 1
    /\ IF ~IsReady
       THEN Return("start", "getLeaderboard", "GetLeaderboardStart", Nothing, <<>>)
       ELSE Await("start", "getLeaderboard",
                  "GetLeaderboardStart", Nothing, "getLeaderboard",
                  "getLeaderboard_getLeaderboard")
    /\ UNCHANGED <<userInfo, Page, Handle, signedOut>>

\* lines 187-188
GetLeaderboardResolve(board) ==
    /\ Awaiting("getLeaderboard_getLeaderboard")
    /\ Return("getLeaderboard_getLeaderboard", "getLeaderboard",
              "GetLeaderboardResolve", Nothing, board)
    /\ UNCHANGED <<userInfo, calls, Page, Handle, signedOut>>

\* lines 189-192
GetLeaderboardReject(e) ==
    /\ Awaiting("getLeaderboard_getLeaderboard")
    /\ Return("getLeaderboard_getLeaderboard", "getLeaderboard",
              "GetLeaderboardReject", Err(e), <<>>)
    /\ UNCHANGED <<userInfo, calls, Page, Handle, signedOut>>

\* ------------------------------------------------------------------ signOut
\* lines 196-204
SignOutStart ==
    /\ CanStart
    /\ calls' = calls + 1
    /\ IF ~IsReady
       THEN Return("start", "signOut", "SignOutStart", Nothing, FALSE)
       ELSE Await("start", "signOut", "SignOutStart", Nothing, "signOut", "signOut_signOut")
    /\ UNCHANGED <<userInfo, Page, Handle, signedOut>>

\* lines 205-206
SignOutResolve ==
    /\ Awaiting("signOut_signOut")
    /\ userInfo' = JsNull
    /\ Return("signOut_signOut", "signOut", "SignOutResolve", Nothing, TRUE)
    /\ UNCHANGED <<calls, Page, Handle>>
    /\ signedOut' = TRUE

\* signOut that also drops the cache when the vendor call failed
SignOutRejectClears(e) ==
    /\ Awaiting("signOut_signOut")
    /\ userInfo' = JsNull
    /\ Return("signOut_signOut", "signOut", "SignOutReject", Err(e), FALSE)
    /\ UNCHANGED <<calls, Page, Handle, signedOut>>

\* lines 207-210
SignOutReject(e) ==
    /\ Awaiting("signOut_signOut")
    /\ Return("signOut_signOut", "signOut", "SignOutReject", Err(e), FALSE)
    /\ UNCHANGED <<userInfo, calls, Page, Handle, signedOut>>

\* ----------------------------------------------------------- handleCallback
\* lines 214-228 and 239-245.  There is no isReady test: with a code and
\* this.sdk undefined, this.sdk.exchangeCodeForToken is a TypeError raised
\* inside the try, and the catch returns false.
HandleCallbackStart ==
    /\ CanStart
    /\ calls' = calls + 1
    /\ LET code == search.code
           error == search.error
       IN  IF ParamTruthy(error)
           THEN Return("start", "handleCallback", "HandleCallbackStart", Nothing, FALSE)
           ELSE IF ParamTruthy(code)
                THEN IF sdk.tag = "object"
                     THEN Await("start", "handleCallback", "HandleCallbackStart", Nothing,
                                "exchangeCodeForToken", "handleCallback_exchange")
                     ELSE ReturnFromTypeError("start", "handleCallback",
                                              "HandleCallbackStart",
                                              "exchangeCodeForToken", FALSE)
                ELSE Return("start", "handleCallback",
                            "HandleCallbackStart", Nothing, FALSE)
    /\ UNCHANGED <<userInfo, Page, Handle>>
    /\ signedOut' = FALSE

\* lines 229-232: the exchange resolved, the identity fetch is issued
HandleCallbackExchangeResolve ==
    /\ Awaiting("handleCallback_exchange")
    /\ Await("handleCallback_exchange", "handleCallback",
             "HandleCallbackExchangeResolve", Nothing, "getUserInfo",
             "handleCallback_getUserInfo")
    /\ UNCHANGED <<userInfo, calls, Page, Handle, signedOut>>

\* lines 239-242
HandleCallbackExchangeReject(e) ==
    /\ Awaiting("handleCallback_exchange")
    /\ Return("handleCallback_exchange", "handleCallback",
              "HandleCallbackExchangeReject", Err(e), FALSE)
    /\ UNCHANGED <<userInfo, calls, Page, Handle, signedOut>>

\* handleCallback without the replaceState of line 236
HandleCallbackIdentityResolveKeepsQuery(v) ==
    /\ Awaiting("handleCallback_getUserInfo")
    /\ userInfo' = v
    /\ Return("handleCallback_getUserInfo", "handleCallback",
              "HandleCallbackIdentityResolve", Got(v), TRUE)
    /\ UNCHANGED <<calls, Page, Handle, signedOut>>

\* lines 232-238: the identity fetch resolved with v; replaceState leaves the
\* path alone and drops the query string
HandleCallbackIdentityResolve(v) ==
    /\ Awaiting("handleCallback_getUserInfo")
    /\ userInfo' = v
    /\ search' = NoQuery
    /\ Return("handleCallback_getUserInfo", "handleCallback",
              "HandleCallbackIdentityResolve", Got(v), TRUE)
    /\ UNCHANGED <<calls, hostname, navCount, navTarget, Handle, signedOut>>

\* handleCallback that cleans the address also when the identity fetch failed
HandleCallbackIdentityRejectCleansUrl(e) ==
    /\ Awaiting("handleCallback_getUserInfo")
    /\ search' = NoQuery
    /\ Return("handleCallback_getUserInfo", "handleCallback",
              "HandleCallbackIdentityReject", Err(e), FALSE)
    /\ UNCHANGED <<userInfo, calls, hostname, navCount, navTarget, Handle, signedOut>>

\* lines 239-242
HandleCallbackIdentityReject(e) ==
    /\ Awaiting("handleCallback_getUserInfo")
    /\ Return("handleCallback_getUserInfo", "handleCallback",
              "HandleCallbackIdentityReject", Err(e), FALSE)
    /\ UNCHANGED <<userInfo, calls, Page, Handle, signedOut>>

\* ------------------------------------------------------------ specification
Next ==
    \/ SignInStart
    \/ \E v \in VendorIdentities : SignInSessionResolve(v)
    \/ \E e \in VendorErrors : SignInSessionReject(e)
    \/ SignInDirectResolve
    \/ \E e \in VendorErrors : SignInDirectReject(e)
    \/ GetUserInfoStart
    \/ \E v \in VendorIdentities : GetUserInfoResolve(v)
    \/ \E e \in VendorErrors : GetUserInfoReject(e)
    \/ \E score \in Scores : SaveScoreStart(score)
    \/ SaveScoreResolve
    \/ \E e \in VendorErrors : SaveScoreReject(e)
    \/ GetLeaderboardStart
    \/ \E board \in Leaderboards : GetLeaderboardResolve(board)
    \/ \E e \in VendorErrors : GetLeaderboardReject(e)
    \/ SignOutStart
    \/ SignOutResolve
    \/ \E e \in VendorErrors : SignOutReject(e)
    \/ HandleCallbackStart
    \/ HandleCallbackExchangeResolve
    \/ \E e \in VendorErrors : HandleCallbackExchangeReject(e)
    \/ \E v \in VendorIdentities : HandleCallbackIdentityResolve(v)
    \/ \E e \in VendorErrors : HandleCallbackIdentityReject(e)

Spec == Init /\ [][Next]_vars

\* The host that section 5 of the design describes: it awaits each invocation
\* before it starts the next, so at most one invocation is ever in flight.
SeqNext == Next /\ InFlight' <= 1
SeqSpec == Init /\ [][SeqNext]_vars

\* -------------------------------------------------------------- properties
\* C1: when construction of the vendor client threw, every operation returns
\* its unavailable value (signIn, saveScore, signOut, handleCallback: false;
\* getUserInfo: null; getLeaderboard: the empty sequence), for every URL,
\* and no vendor method is ever invoked.
NotReadyReturnsUnavailable ==
    sdk.tag = "undefined" =>
        /\ last.called = "none"
        /\ InFlight = 0
        /\ last.outcome \in {"none", "returned"}
        /\ last.op \in {"signIn", "saveScore", "signOut", "handleCallback"}
              => last.ret = FALSE
        /\ last.op = "getUserInfo" => last.ret = JsNull
        /\ last.op = "getLeaderboard" => last.ret = <<>>

\* handleCallback has answered a URL that carries a code on an adapter that
\* is not ready
NotReadyCallbackWithCode ==
    /\ ~IsReady
    /\ last.op = "handleCallback"
    /\ ParamTruthy(search.code)
    /\ ~ParamTruthy(search.error)
    /\ last.outcome = "returned"

\* C2: when sdk.signInWithFuntico fails with an error whose message contains
\* redirect_uri, signIn returns true and the cached identity is the demo
\* identity, so isAuthenticated() is true.
SignInRedirectUriGivesDemoIdentity ==
    (last.act = "SignInDirectReject" /\ Includes(last.err.message, <<"redirect_uri">>))
        => /\ last.outcome = "returned"
           /\ last.ret = TRUE
           /\ userInfo = DemoIdentity
           /\ IsAuthenticated

\* C3: when the vendor signOut succeeds, signOut returns true and the cache is
\* empty at that moment, so isAuthenticated() is false; when it fails, signOut
\* returns false; no step of signOut other than the successful return changes
\* the cache.
SignOutContract ==
    [][/\ last'.act = "SignOutResolve"
            => /\ last'.outcome = "returned"
               /\ last'.ret = TRUE
               /\ userInfo' = JsNull
               /\ ~IsAuthenticated'
       /\ last'.act = "SignOutReject"
            => /\ last'.outcome = "returned"
               /\ last'.ret = FALSE
               /\ userInfo' = userInfo
       /\ last'.act = "SignOutStart" => userInfo' = userInfo]_vars

\* a signOut whose vendor call failed has returned and an identity is cached
SignOutFailedIdentityKept ==
    /\ last.act = "SignOutReject"
    /\ Truthy(userInfo)

\* C4: on a ready adapter with a non-empty cached identity, getUserInfo
\* returns the cached value, calls no vendor method and leaves the cache as
\* it is; the state it leaves satisfies the same precondition, so this holds
\* for any number of consecutive calls.
CachedIdentityReadThrough ==
    [][(last'.act = "GetUserInfoStart" /\ IsReady /\ Truthy(userInfo))
          => /\ last'.outcome = "returned"
             /\ last'.ret = userInfo
             /\ last'.called = "none"
             /\ InFlight' = InFlight
             /\ userInfo' = userInfo]_vars

\* getUserInfo has answered from the cache, after at least one earlier
\* getUserInfo answered from it too or filled it
CachedLookupAnswered ==
    /\ last.act = "GetUserInfoStart"
    /\ IsReady
    /\ last.outcome = "returned"
    /\ Truthy(last.ret)
    /\ last.ret = userInfo
    /\ calls = MaxCalls

\* C5: on a ready adapter saveScore never throws and never returns false:
\* it returns true when the vendor call succeeded and when it failed.
SaveScoreAlwaysTrue ==
    (last.op = "saveScore" /\ IsReady)
        => /\ last.outcome \in {"pending", "returned"}
           /\ last.outcome = "returned" => last.ret = TRUE

\* saveScore has returned true after the vendor call failed
SaveScoreFailedReturnedTrue ==
    /\ last.act = "SaveScoreReject"
    /\ last.err = NetworkError
    /\ last.outcome = "returned"
    /\ last.ret = TRUE

\* C6: handleCallback issues the exchange only for a URL with a code and no
\* error, issues the identity fetch only when the exchange has resolved, and
\* when the fetch resolves with an identity it returns true with that
\* identity cached and no query string left in the address.
CallbackSuccessCachesIdentity ==
    [][/\ (last'.act = "HandleCallbackStart" /\ last'.outcome = "pending")
            => /\ ParamTruthy(search.code)
               /\ ~ParamTruthy(search.error)
               /\ last'.called = "exchangeCodeForToken"
       /\ (last'.op = "handleCallback" /\ last'.called = "getUserInfo")
            => /\ Awaiting("handleCallback_exchange")
               /\ last'.act = "HandleCallbackExchangeResolve"
       /\ (last'.act = "HandleCallbackIdentityResolve" /\ Truthy(last'.got))
            => /\ last'.outcome = "returned"
               /\ last'.ret = TRUE
               /\ userInfo' = last'.got
               /\ search' = NoQuery]_vars

\* handleCallback has returned true with the fetched identity alice cached
CallbackCachedAlice ==
    /\ last.act = "HandleCallbackIdentityResolve"
    /\ last.got = Alice
    /\ userInfo = Alice
    /\ search = NoQuery
    /\ last.ret = TRUE

\* C7: on a URL that carries an error parameter, handleCallback returns false,
\* calls no vendor method and changes neither the cache nor the address,
\* whether or not the URL carries a code too.
CallbackErrorParameterFails ==
    [][(last'.act = "HandleCallbackStart" /\ search.error # Absent)
          => /\ last'.outcome = "returned"
             /\ last'.ret = FALSE
             /\ last'.called = "none"
             /\ userInfo' = userInfo
             /\ search' = search]_vars

\* C8: a non-empty cached identity becomes empty only in the step of a
\* signOut whose vendor call succeeded.
IdentityClearedOnlyBySignOut ==
    [][(Truthy(userInfo) /\ ~Truthy(userInfo')) => last'.act = "SignOutResolve"]_vars

\* C9: isAuthenticated() is true exactly when the cache holds a non-empty
\* identity, which is when getUserInfo answers from the cache.
AuthenticatedIffCached == IsAuthenticated <=> Truthy(userInfo)

\* C10: no invocation ends with an exception escaping to the caller, whatever
\* the vendor calls resolve or reject with, ready or not.
NoOperationThrows == last.outcome # "threw"

\* getUserInfo has returned after the vendor call rejected with null
RejectedWithNullHandled ==
    /\ last.act = "GetUserInfoReject"
    /\ last.err = NullError
    /\ last.outcome = "returned"

\* C11, as stated: getUsername returns Guest when no identity is cached and
\* the cached identity's username whenever one is cached, for every username.
UsernameOfEveryCachedIdentity ==
    /\ ~Truthy(userInfo) => GetUsername = "Guest"
    /\ Truthy(userInfo) => GetUsername = userInfo.username

\* C11, amended: getUsername returns Guest when no identity is cached or the
\* cached identity's username is empty, and the cached username otherwise.
UsernameOrGuest ==
    /\ ~Truthy(userInfo) => GetUsername = "Guest"
    /\ (Truthy(userInfo) /\ userInfo.username = "") => GetUsername = "Guest"
    /\ (Truthy(userInfo) /\ userInfo.username # "") => GetUsername = userInfo.username

\* an identity with an empty username is cached and getUsername answers Guest
EmptyUsernameCached ==
    /\ userInfo = Anonymous
    /\ GetUsername = "Guest"

\* C12: on a ready adapter signIn starts with the vendor identity fetch
\* exactly when the page is vendor-hosted, and with the vendor sign-in call
\* otherwise.  When the fetch resolves with an identity, signIn caches it and
\* returns true with no further vendor call and no navigation; when it
\* resolves empty or fails, signIn goes on to the vendor sign-in call.
SignInSessionLookup ==
    [][/\ (last'.act = "SignInStart" /\ IsReady)
            => /\ last'.outcome = "pending"
               /\ last'.called = IF Includes(hostname, FunticoDomain)
                                 THEN "getUserInfo" ELSE "signInWithFuntico"
       /\ (last'.op = "signIn" /\ last'.called = "getUserInfo")
            => /\ last'.act = "SignInStart"
               /\ Includes(hostname, FunticoDomain)
       /\ (last'.act = "SignInSessionResolve" /\ Truthy(last'.got))
            => /\ last'.outcome = "returned"
               /\ last'.ret = TRUE
               /\ userInfo' = last'.got
               /\ last'.called = "none"
               /\ navCount' = navCount
               /\ navTarget' = navTarget
       /\ (last'.act = "SignInSessionResolve" /\ ~Truthy(last'.got))
            => /\ last'.outcome = "pending"
               /\ last'.called = "signInWithFuntico"
       /\ last'.act = "SignInSessionReject"
            => /\ last'.outcome = "pending"
               /\ last'.called = "signInWithFuntico"
               /\ userInfo' = userInfo]_vars

\* signIn has returned true from the session lookup, with alice cached and no
\* navigation issued
SessionFoundAlice ==
    /\ last.act = "SignInSessionResolve"
    /\ last.outcome = "returned"
    /\ userInfo = Alice
    /\ navCount = 0

\* what the authorization server reads back from an escaped query value
DecodeToken(c) == IF c = "%3A" THEN ":" ELSE IF c = "%2F" THEN "/" ELSE c
DecodeURIComponent(s) == [i \in 1..Len(s) |-> DecodeToken(s[i])]

CallbackFailureChangesNothing ==
    [][/\ last'.act \in {"HandleCallbackExchangeReject", "HandleCallbackIdentityReject"}
            => /\ last'.outcome = "returned"
               /\ last'.ret = FALSE
               /\ last'.called = "none"
               /\ InFlight' = InFlight - 1
       /\ last'.act \in {"HandleCallbackStart", "HandleCallbackExchangeResolve",
                         "HandleCallbackExchangeReject", "HandleCallbackIdentityReject"}
            => /\ userInfo' = userInfo
               /\ search' = search
       /\ (last'.act = "HandleCallbackStart" /\ ~ParamTruthy(search.code)
             /\ ~ParamTruthy(search.error))
            => /\ last'.outcome = "returned"
               /\ last'.ret = FALSE
               /\ last'.called = "none"
               /\ InFlight' = InFlight]_vars

\* handleCallback has returned false after the identity fetch failed, and the
\* address still carries the code
CallbackFetchFailedCodeKept ==
    /\ last.act = "HandleCallbackIdentityReject"
    /\ last.ret = FALSE
    /\ ParamTruthy(search.code)
    /\ ~Truthy(userInfo)

\* C15: whenever handleCallback returns true a non-empty identity is cached
\* at that moment: isAuthenticated() is true and getUsername() is the fetched
\* username, whatever the identity fetch resolved with.
CallbackTrueMeansIdentity ==
    (last.op = "handleCallback" /\ last.outcome = "returned" /\ last.ret = TRUE)
        => /\ Truthy(userInfo)
           /\ IsAuthenticated
           /\ GetUsername = last.got.username

\* C16: on an adapter that is not ready no operation tries to call a method
\* of the absent handle; in particular handleCallback with a code does not
\* try exchangeCodeForToken.
NoCallOnAbsentHandle == ~IsReady => last.attempted = "none"

\* C17: on a ready adapter with an empty cache getUserInfo issues one vendor
\* identity call; when it resolves, the result is cached and returned; when it
\* fails, with auth_error, internal_server_error or anything else, getUserInfo
\* returns null, issues no further call and leaves the cache empty.
IdentityFetchOnceThenSettle ==
    [][/\ (last'.act = "GetUserInfoStart" /\ IsReady /\ ~Truthy(userInfo))
            => /\ last'.outcome = "pending"
               /\ last'.called = "getUserInfo"
               /\ inflight'["getUserInfo_getUserInfo"] = 1
               /\ userInfo' = userInfo
       /\ (last'.op = "getUserInfo" /\ last'.called # "none")
            => last'.act = "GetUserInfoStart"
       /\ last'.act = "GetUserInfoResolve"
            => /\ last'.outcome = "returned"
               /\ last'.ret = last'.got
               /\ userInfo' = last'.got
       /\ last'.act = "GetUserInfoReject"
            => /\ last'.outcome = "returned"
               /\ last'.ret = JsNull
               /\ userInfo' = userInfo
               /\ ~Truthy(userInfo')]_vars

\* getUserInfo has returned null after the vendor answered internal_server_error
ServerErrorGaveNull ==
    /\ last.act = "GetUserInfoReject"
    /\ last.err = ServerError
    /\ last.outcome = "returned"
    /\ ~Truthy(userInfo)

\* C18: isReady() is true exactly when construction of the vendor client did
\* not throw (this.sdk holds the client), and no step of any operation
\* changes this.sdk, this.isInitialized or what isReady() returns.
ReadinessFixedAtConstruction ==
    /\ [](IsReady <=> sdk.tag = "object")
    /\ [][sdk' = sdk /\ isInitialized' = isInitialized /\ IsReady' = IsReady]_vars

\* an adapter whose construction failed is still not ready after the host has
\* used up its invocations
StillNotReady ==
    /\ ~IsReady
    /\ sdk.tag = "undefined"
    /\ calls = MaxCalls

\* C19: after a signOut has returned true, and as long as no signIn,
\* getUserInfo or handleCallback is started, the cache holds no identity, also
\* when an invocation started before the signOut settles after it.
SignedOutStaysEmpty == signedOut => ~Truthy(userInfo)

\* C20: signIn has no single-flight guard.  A signIn started on a ready
\* adapter while another signIn is awaiting its vendor call issues a vendor
\* call of its own, and every signIn whose direct call fails assigns the page
\* address, whether or not another signIn is in flight or has navigated.
SignInUnguarded ==
    [][/\ (last'.act = "SignInStart" /\ IsReady)
            => /\ last'.outcome = "pending"
               /\ last'.called \in {"getUserInfo", "signInWithFuntico"}
               /\ inflight'["signIn_getUserInfo"] + inflight'["signIn_signInWithFuntico"]
                    = inflight["signIn_getUserInfo"] + inflight["signIn_signInWithFuntico"]
                      + 1
       /\ last'.act = "SignInDirectReject"
            => /\ navCount' = navCount + 1
               /\ inflight'["signIn_signInWithFuntico"]
                    = inflight["signIn_signInWithFuntico"] - 1]_vars

\* two signIn invocations overlapped: one has just assigned the page address
\* after its direct call failed, while the other, which has issued its own
\* direct call, is still awaiting it
OverlappingSignInNavigated ==
    /\ last.act = "SignInDirectReject"
    /\ navCount = 1
    /\ inflight["signIn_signInWithFuntico"] = 1

====
